---------------------------- MODULE Spec2Model ----------------------------
(***************************************************************************)
(* The three numerical kernels of python-numerical-methods as one state    *)
(* machine: compute_legendre (legendre.py), approx_square_root with        *)
(* taylor_term (square_root.py), and the two steppers                      *)
(* perform_time_stepping1 / perform_time_stepping2 (time_steppers.py).     *)
(*                                                                         *)
(* Init chooses which routine is called and with which arguments; every    *)
(* action is one statement (or one loop pass) of the routine.  A call ends *)
(* in pc = "returned" or in pc = "raised" with the exception's name in     *)
(* err.                                                                    *)
(*                                                                         *)
(* Arithmetic.  The Python code computes in binary64 floating point.  The  *)
(* model computes in exact rational arithmetic: a number is a pair         *)
(* <<num, den>> in lowest terms with den > 0.  Rounding is therefore not   *)
(* modelled; what is modelled is the order of the operations, the values   *)
(* they are applied to, the comparisons and the divisions by zero.         *)
(***************************************************************************)
EXTENDS Integers, Sequences, FiniteSets, TLC

VARIABLES
    call,             \* the routine being run
    pc,               \* position in the routine
    err,              \* name of the raised exception, "" when none
    \* compute_legendre(x, p)
    x, p, legendre,
    n,                \* loop index of compute_legendre and of both steppers
    \* approx_square_root(a, N, x0, eps); N is also the steppers' step count
    a, N, x0, eps, x_new, iteration_count, delta_x, k, taylor_sum,
    \* perform_time_stepping1(T, N, y0, y1, f), perform_time_stepping2(T, N, M, y0, f)
    T, M, y0, y1, f, h, t_vals, y_vals, k1, k2, k3,
    \* history (not program state): what was evaluated so far
    evals,            \* arguments of every taylor_term / f evaluation, in order
    passes            \* the estimate at the start of every square-root loop pass

vars == <<call, pc, err, x, p, legendre, n,
          a, N, x0, eps, x_new, iteration_count, delta_x, k, taylor_sum,
          T, M, y0, y1, f, h, t_vals, y_vals, k1, k2, k3, evals, passes>>

legendreVars == <<x, p, legendre>>
sqrtVars     == <<a, x0, eps, x_new, iteration_count, delta_x, k, taylor_sum, passes>>
stepVars     == <<T, M, y0, y1, f, h, t_vals, y_vals, k1, k2, k3>>

---------------------------------------------------------------------------
(* Bounds of the model.                                                    *)

MaxP     == 3    \* largest polynomial degree p
MaxLen   == 2    \* longest enumerated sample vector
MaxTerms == 2    \* largest term count N of approx_square_root
MaxIter  == 3    \* loop passes of approx_square_root that are followed
MaxEst   == 10000 \* largest |num|, den of an estimate whose residual is tested
MaxMag   == 60000 \* largest Mag(x_new)^(2N) with which a loop pass is followed
MaxN     == 2    \* largest step count N of the steppers

---------------------------------------------------------------------------
(* Exact rational arithmetic standing for Python's float arithmetic.       *)

Abs(i) == IF i < 0 THEN 0 - i ELSE i

RECURSIVE GCD(_, _)
GCD(i, j) == IF j = 0 THEN i ELSE GCD(j, i % j)

\* The rational num/den (den # 0) in lowest terms with a positive denominator.
Rat(num, den) ==
    LET g == GCD(Abs(num), Abs(den))
        s == IF den < 0 THEN 0 - 1 ELSE 1
    IN  <<s * (num \div g), Abs(den) \div g>>

FromInt(i) == <<i, 1>>
Zero == FromInt(0)
One  == FromInt(1)

RAdd(u, v) ==
    LET g == GCD(u[2], v[2])
    IN  Rat(u[1] * (v[2] \div g) + v[1] * (u[2] \div g), (u[2] \div g) * v[2])

RNeg(u) == <<0 - u[1], u[2]>>

RSub(u, v) == RAdd(u, RNeg(v))

RMul(u, v) ==
    LET g1 == GCD(Abs(u[1]), v[2])
        g2 == GCD(Abs(v[1]), u[2])
    IN  Rat((u[1] \div g1) * (v[1] \div g2), (u[2] \div g2) * (v[2] \div g1))

\* u / v for v # 0; the callers model the ZeroDivisionError of v = 0.
RDiv(u, v) == RMul(u, Rat(v[2], v[1]))

RAbs(u) == <<Abs(u[1]), u[2]>>

RGt(u, v) == u[1] * v[2] > v[1] * u[2]

RECURSIVE RPow(_, _)
RPow(u, e) == IF e = 0 THEN One ELSE RMul(u, RPow(u, e - 1))

RECURSIVE IPow(_, _)
IPow(b, e) == IF e = 0 THEN 1 ELSE b * IPow(b, e - 1)

---------------------------------------------------------------------------
(* compute_legendre(x, p)                                                  *)

\* np.linspace(-1, 1, 5), the sample vector of the docstring example.
Linspace5 == <<Rat(0 - 1, 1), Rat(0 - 1, 2), Zero, Rat(1, 2), One>>

SampleValues == {Rat(0 - 1, 1), Rat(0 - 1, 2), Zero, Rat(1, 2), One, FromInt(2)}

SampleVectors ==
    UNION {[1..m -> SampleValues] : m \in 0..MaxLen} \cup {Linspace5}

\* Mutant of legendre_row: the coefficient of row n-2 is n-2 instead of n-1.
legendre_row_coeff(deg, xs, prev1, prev2) ==
    [i \in 1..Len(xs) |->
        RDiv(RSub(RMul(RMul(FromInt(2 * deg - 1), xs[i]), prev1[i]),
                  RMul(FromInt(deg - 2), prev2[i])),
             FromInt(deg))]

\* Mutant of legendre_row: the division by n is missing.
legendre_row_nodiv(deg, xs, prev1, prev2) ==
    [i \in 1..Len(xs) |->
        RSub(RMul(RMul(FromInt(2 * deg - 1), xs[i]), prev1[i]),
             RMul(FromInt(deg - 1), prev2[i]))]

\* ((2 * n - 1) * x * legendre[n - 1, :] - (n - 1) * legendre[n - 2, :]) / n
legendre_row(deg, xs, prev1, prev2) ==
    [i \in 1..Len(xs) |->
        RDiv(RSub(RMul(RMul(FromInt(2 * deg - 1), xs[i]), prev1[i]),
                  RMul(FromInt(deg - 1), prev2[i])),
             FromInt(deg))]

\* n_points = len(x); legendre = np.zeros((p + 1, n_points)).
\* np.zeros raises ValueError for a negative dimension.
compute_legendre_zeros ==
    /\ call = "compute_legendre" /\ pc = "start"
    /\ IF p + 1 < 0
       THEN /\ pc' = "raised" /\ err' = "ValueError"
            /\ UNCHANGED legendre
       ELSE /\ legendre' = [r \in 0..p |-> [i \in 1..Len(x) |-> Zero]]
            /\ pc' = "row0" /\ UNCHANGED err
    /\ UNCHANGED <<call, x, p, n, N, sqrtVars, stepVars, evals>>

\* legendre[0, :] = 1; row 0 does not exist when p + 1 = 0 (IndexError).
compute_legendre_row0 ==
    /\ call = "compute_legendre" /\ pc = "row0"
    /\ IF p + 1 = 0
       THEN /\ pc' = "raised" /\ err' = "IndexError"
            /\ UNCHANGED legendre
       ELSE /\ legendre' = [legendre EXCEPT ![0] = [i \in 1..Len(x) |-> One]]
            /\ pc' = "row1" /\ UNCHANGED err
    /\ UNCHANGED <<call, x, p, n, N, sqrtVars, stepVars, evals>>

\* if p >= 1: legendre[1, :] = x; then the loop starts at n = 2.
compute_legendre_row1 ==
    /\ call = "compute_legendre" /\ pc = "row1"
    /\ legendre' = IF p >= 1 THEN [legendre EXCEPT ![1] = x] ELSE legendre
    /\ n' = 2
    /\ pc' = "loop"
    /\ UNCHANGED <<call, err, x, p, N, sqrtVars, stepVars, evals>>

\* One pass of: for n in range(2, p + 1).
compute_legendre_loop ==
    /\ call = "compute_legendre" /\ pc = "loop"
    /\ n <= p
    /\ legendre' = [legendre EXCEPT
                      ![n] = legendre_row(n, x, legendre[n - 1], legendre[n - 2])]
    /\ n' = n + 1
    /\ UNCHANGED <<call, pc, err, x, p, N, sqrtVars, stepVars, evals>>

\* return legendre
compute_legendre_return ==
    /\ call = "compute_legendre" /\ pc = "loop"
    /\ n > p
    /\ pc' = "returned"
    /\ UNCHANGED <<call, err, x, p, legendre, n, N, sqrtVars, stepVars, evals>>

InitLegendre ==
    /\ call = "compute_legendre"
    /\ x \in SampleVectors
    /\ p \in (0 - 2)..MaxP
    /\ legendre = <<>>
    /\ N = 0
    /\ a = Zero /\ x0 = Zero /\ eps = Zero
    /\ T = Zero /\ M = 0 /\ y0 = Zero /\ y1 = Zero /\ f = "none"

---------------------------------------------------------------------------
(* approx_square_root(a, N, x0, eps) and taylor_term(k, delta_x, x_n)      *)

\* math.comb(nn, kk)
RECURSIVE Comb(_, _)
Comb(nn, kk) == IF kk = 0 THEN 1 ELSE (Comb(nn - 1, kk - 1) * nn) \div kk

\* The value a call returns, or the exception it raises.
Ok(v)     == <<"ok", v>>
Raise(e)  == <<"raise", e>>
IsOk(r)   == r[1] = "ok"
Val(r)    == r[2]

\* Mutant of taylor_term: a zero estimate yields a term of 0 instead of raising.
taylor_term_guarded(kk, dx, x_n) ==
    IF kk = 0 THEN Ok(One)
    ELSE IF RMul(x_n, x_n) = Zero THEN Ok(Zero)
    ELSE Ok(RMul(RMul(Rat(IPow(0 - 1, kk), (1 - 2 * kk) * IPow(4, kk)),
                      FromInt(Comb(2 * kk, kk))),
                 RPow(RDiv(dx, RMul(x_n, x_n)), kk)))

\* Mutant of taylor_term: the term of k = 0 is computed like the others.
taylor_term_nobase(kk, dx, x_n) ==
    IF RMul(x_n, x_n) = Zero THEN Raise("ZeroDivisionError")
    ELSE Ok(RMul(RMul(Rat(IPow(0 - 1, kk), (1 - 2 * kk) * IPow(4, kk)),
                      FromInt(Comb(2 * kk, kk))),
                 RPow(RDiv(dx, RMul(x_n, x_n)), kk)))

\* if k == 0: return 1
\* coeff = (-1)**k / ((1 - 2*k) * 4**k); binomial = math.comb(2*k, k)
\* return coeff * binomial * (delta_x / x_n**2)**k
\* Python raises ZeroDivisionError on delta_x / x_n**2 when x_n**2 is 0.
taylor_term(kk, dx, x_n) ==
    IF kk = 0 THEN Ok(One)
    ELSE IF RMul(x_n, x_n) = Zero THEN Raise("ZeroDivisionError")
    ELSE Ok(RMul(RMul(Rat(IPow(0 - 1, kk), (1 - 2 * kk) * IPow(4, kk)),
                      FromInt(Comb(2 * kk, kk))),
                 RPow(RDiv(dx, RMul(x_n, x_n)), kk)))

\* Mutant of loop_condition: the residual is compared without abs().
loop_condition_noabs(est, target, tol) ==
    RGt(RSub(RMul(est, est), target), tol)

\* Mutant of loop_condition: the estimate is compared unsquared.
loop_condition_nosquare(est, target, tol) ==
    RGt(RAbs(RSub(est, target)), tol)

\* abs(x_new**2 - a) > eps
loop_condition(est, target, tol) ==
    RGt(RAbs(RSub(RMul(est, est), target)), tol)

\* The magnitude of a rational, and whether m^e <= cap (for m >= 1).
Mag(u) == IF Abs(u[1]) > u[2] THEN Abs(u[1]) ELSE u[2]

RECURSIVE WithinMag(_, _, _)
WithinMag(m, e, cap) ==
    IF e = 0 THEN cap >= 1 ELSE WithinMag(m, e - 1, cap \div m)

\* x_new = x0; iteration_count = 0
approx_square_root_init ==
    /\ call = "approx_square_root" /\ pc = "start"
    /\ x_new' = x0
    /\ iteration_count' = 0
    /\ pc' = "while"
    /\ UNCHANGED <<call, err, legendreVars, n, N, a, x0, eps, delta_x, k,
                   taylor_sum, passes, stepVars, evals>>

\* while abs(x_new**2 - a) > eps: the condition holds, a pass starts with
\* delta_x = a - x_new**2 and an empty sum.  The model follows a pass only
\* within its bounds.
approx_square_root_enter ==
    /\ call = "approx_square_root" /\ pc = "while"
    /\ Mag(x_new) <= MaxEst
    /\ loop_condition(x_new, a, eps)
    /\ iteration_count < MaxIter
    /\ WithinMag(Mag(x_new), 2 * N, MaxMag)
    /\ delta_x' = RSub(a, RMul(x_new, x_new))
    /\ k' = 0
    /\ taylor_sum' = Zero
    /\ passes' = Append(passes, x_new)
    /\ pc' = "sum"
    /\ UNCHANGED <<call, err, legendreVars, n, N, a, x0, eps, x_new,
                   iteration_count, stepVars, evals>>

\* One element of sum(taylor_term(k, delta_x, x_new) for k in range(N + 1)).
approx_square_root_term ==
    /\ call = "approx_square_root" /\ pc = "sum"
    /\ k <= N
    /\ evals' = Append(evals, <<k, delta_x, x_new>>)
    /\ LET r == taylor_term(k, delta_x, x_new)
       IN  IF IsOk(r)
           THEN /\ taylor_sum' = RAdd(taylor_sum, Val(r))
                /\ k' = k + 1
                /\ UNCHANGED <<pc, err>>
           ELSE /\ pc' = "raised" /\ err' = Val(r)
                /\ UNCHANGED <<taylor_sum, k>>
    /\ UNCHANGED <<call, legendreVars, n, N, a, x0, eps, x_new,
                   iteration_count, delta_x, passes, stepVars>>

\* x_new = x_new * taylor_sum; iteration_count += 1
approx_square_root_update ==
    /\ call = "approx_square_root" /\ pc = "sum"
    /\ k > N
    /\ x_new' = RMul(x_new, taylor_sum)
    /\ iteration_count' = iteration_count + 1
    /\ pc' = "while"
    /\ UNCHANGED <<call, err, legendreVars, n, N, a, x0, eps, delta_x, k,
                   taylor_sum, passes, stepVars, evals>>

\* The loop condition fails: return x_new, iteration_count
approx_square_root_return ==
    /\ call = "approx_square_root" /\ pc = "while"
    /\ Mag(x_new) <= MaxEst
    /\ ~ loop_condition(x_new, a, eps)
    /\ pc' = "returned"
    /\ UNCHANGED <<call, err, legendreVars, n, N, sqrtVars, stepVars, evals>>

InitSqrt ==
    /\ call = "approx_square_root"
    /\ a \in {FromInt(0 - 1), Zero, One, FromInt(2), FromInt(4)}
    /\ N \in 0..MaxTerms
    /\ x0 \in {FromInt(0 - 2), Zero, One, Rat(3, 2), FromInt(2), FromInt(3)}
    /\ eps \in {Zero, Rat(1, 4), One}
    /\ x = <<>> /\ p = 0 /\ legendre = <<>>
    /\ T = Zero /\ M = 0 /\ y0 = Zero /\ y1 = Zero /\ f = "none"

---------------------------------------------------------------------------
(* perform_time_stepping1(T, N, y0, y1, f) and                             *)
(* perform_time_stepping2(T, N, M, y0, f)                                  *)

\* The derivative functions f(t, y) the caller may pass.  "recip" is the
\* lambda of the module's own demonstration, 1 / (1 + y), which raises
\* ZeroDivisionError at y = -1; "recip_t" is 1 / (1 + t), which raises it
\* at t = -1; the others are total.  The nested stages of the Runge-Kutta
\* stepper square the denominators of "recip" beyond TLC's 32-bit
\* integers after one step, so that stepper is run with "recip" for
\* N <= 1 only.
Derivatives == {"recip_t", "growth", "t_minus_y"}

f_apply(fn, t, y) ==
    CASE fn = "recip"     -> IF RAdd(One, y) = Zero
                             THEN Raise("ZeroDivisionError")
                             ELSE Ok(RDiv(One, RAdd(One, y)))
      [] fn = "recip_t"   -> IF RAdd(One, t) = Zero
                             THEN Raise("ZeroDivisionError")
                             ELSE Ok(RDiv(One, RAdd(One, t)))
      [] fn = "growth"    -> Ok(y)
      [] fn = "t_minus_y" -> Ok(RSub(t, y))

\* h = T / N  (N # 0)
step_size(TT, NN) == RDiv(TT, FromInt(NN))

\* np.linspace(0, T, N + 1) for N >= 1: entry i is i * (T / N).
linspace(TT, NN) == [i \in 0..NN |-> RMul(FromInt(i), RDiv(TT, FromInt(NN)))]

\* What the common prologue of both steppers raises, "" when nothing:
\* np.linspace / np.zeros reject a negative length, T / N a zero N, and
\* y_vals[0] = y0 an empty array.
prologue_error(NN) ==
    IF NN + 1 < 0 THEN "ValueError"
    ELSE IF NN = 0 THEN "ZeroDivisionError"
    ELSE IF NN + 1 = 0 THEN "IndexError"
    ELSE ""

\* Mutant of euler_first: textbook Euler, the loop starts at n = 0.
euler_first_textbook == 1 - 1

\* for n in range(1, N): the first n
euler_first == 1

\* y_vals[n] + h * f(t_vals[n], y_vals[n])
euler_update(hh, yn, fv) == RAdd(yn, RMul(hh, fv))

\* t_vals, y_vals, h, y_vals[0] = y0, y_vals[1] = y1
perform_time_stepping1_setup ==
    /\ call = "perform_time_stepping1" /\ pc = "start"
    /\ IF prologue_error(N) # ""
       THEN /\ pc' = "raised" /\ err' = prologue_error(N)
            /\ UNCHANGED <<t_vals, y_vals, h, n>>
       ELSE /\ t_vals' = linspace(T, N)
            /\ h' = step_size(T, N)
            /\ y_vals' = [i \in 0..N |-> IF i = 0 THEN y0
                                         ELSE IF i = 1 THEN y1 ELSE Zero]
            /\ n' = euler_first
            /\ pc' = "loop" /\ UNCHANGED err
    /\ UNCHANGED <<call, legendreVars, N, sqrtVars, T, M, y0, y1, f,
                   k1, k2, k3, evals>>

\* One pass of: for n in range(1, N)
perform_time_stepping1_loop ==
    /\ call = "perform_time_stepping1" /\ pc = "loop"
    /\ n < N
    /\ evals' = Append(evals, <<n, t_vals[n], y_vals[n]>>)
    /\ LET r == f_apply(f, t_vals[n], y_vals[n])
       IN  IF IsOk(r)
           THEN /\ y_vals' = [y_vals EXCEPT
                                ![n + 1] = euler_update(h, y_vals[n], Val(r))]
                /\ n' = n + 1
                /\ UNCHANGED <<pc, err>>
           ELSE /\ pc' = "raised" /\ err' = Val(r)
                /\ UNCHANGED <<y_vals, n>>
    /\ UNCHANGED <<call, legendreVars, N, sqrtVars, T, M, y0, y1, f, h,
                   t_vals, k1, k2, k3>>

\* return t_vals, y_vals
perform_time_stepping1_return ==
    /\ call = "perform_time_stepping1" /\ pc = "loop"
    /\ n >= N
    /\ pc' = "returned"
    /\ UNCHANGED <<call, err, legendreVars, n, N, sqrtVars, stepVars, evals>>

\* Mutant of rk4_combine: the four slopes are averaged with equal weights.
rk4_combine_equal(yn, s1, s2, s3, s4) ==
    RAdd(yn, RDiv(RAdd(RAdd(RAdd(s1, s2), s3), s4), FromInt(4)))

\* y_n + (k1 + 2 * k2 + 2 * k3 + k4) / 6
rk4_combine(yn, s1, s2, s3, s4) ==
    RAdd(yn, RDiv(RAdd(RAdd(RAdd(s1, RMul(FromInt(2), s2)),
                            RMul(FromInt(2), s3)), s4),
                  FromInt(6)))

\* The (t, y) at which stage 2 and stage 3 evaluate f, from the previous slope.
rk4_half(hh, tn, yn, s) == <<RAdd(tn, RDiv(hh, FromInt(2))), RAdd(yn, RDiv(s, FromInt(2)))>>

\* The (t, y) at which stage 4 evaluates f.
rk4_full(hh, tn, yn, s) == <<RAdd(tn, hh), RAdd(yn, s)>>

\* t_vals, y_vals, h, y_vals[0] = y0; M is not read.
perform_time_stepping2_setup ==
    /\ call = "perform_time_stepping2" /\ pc = "start"
    /\ IF prologue_error(N) # ""
       THEN /\ pc' = "raised" /\ err' = prologue_error(N)
            /\ UNCHANGED <<t_vals, y_vals, h, n>>
       ELSE /\ t_vals' = linspace(T, N)
            /\ h' = step_size(T, N)
            /\ y_vals' = [i \in 0..N |-> IF i = 0 THEN y0 ELSE Zero]
            /\ n' = 0
            /\ pc' = "k1" /\ UNCHANGED err
    /\ UNCHANGED <<call, legendreVars, N, sqrtVars, T, M, y0, y1, f,
                   k1, k2, k3, evals>>

\* The exception of f ends the call in the middle of a step.
stage_raise(r) ==
    /\ pc' = "raised" /\ err' = Val(r)
    /\ UNCHANGED <<k1, k2, k3, y_vals, n>>

\* What no stage of the loop body assigns.
stage_frame ==
    UNCHANGED <<call, legendreVars, N, sqrtVars, T, M, y0, y1, f, h, t_vals>>

\* for n in range(N): t_n = t_vals[n]; y_n = y_vals[n]; k1 = h * f(t_n, y_n)
perform_time_stepping2_k1 ==
    /\ call = "perform_time_stepping2" /\ pc = "k1"
    /\ n < N
    /\ evals' = Append(evals, <<n, t_vals[n], y_vals[n]>>)
    /\ LET r == f_apply(f, t_vals[n], y_vals[n])
       IN  IF IsOk(r)
           THEN /\ k1' = RMul(h, Val(r)) /\ pc' = "k2"
                /\ UNCHANGED <<err, k2, k3, y_vals, n>>
           ELSE stage_raise(r)
    /\ stage_frame

\* k2 = h * f(t_n + h / 2, y_n + k1 / 2)
perform_time_stepping2_k2 ==
    /\ call = "perform_time_stepping2" /\ pc = "k2"
    /\ LET at == rk4_half(h, t_vals[n], y_vals[n], k1)
           r  == f_apply(f, at[1], at[2])
       IN  /\ evals' = Append(evals, <<n, at[1], at[2]>>)
           /\ IF IsOk(r)
              THEN /\ k2' = RMul(h, Val(r)) /\ pc' = "k3"
                   /\ UNCHANGED <<err, k1, k3, y_vals, n>>
              ELSE stage_raise(r)
    /\ stage_frame

\* k3 = h * f(t_n + h / 2, y_n + k2 / 2)
perform_time_stepping2_k3 ==
    /\ call = "perform_time_stepping2" /\ pc = "k3"
    /\ LET at == rk4_half(h, t_vals[n], y_vals[n], k2)
           r  == f_apply(f, at[1], at[2])
       IN  /\ evals' = Append(evals, <<n, at[1], at[2]>>)
           /\ IF IsOk(r)
              THEN /\ k3' = RMul(h, Val(r)) /\ pc' = "k4"
                   /\ UNCHANGED <<err, k1, k2, y_vals, n>>
              ELSE stage_raise(r)
    /\ stage_frame

\* k4 = h * f(t_n + h, y_n + k3)
\* y_vals[n + 1] = y_n + (k1 + 2 * k2 + 2 * k3 + k4) / 6
perform_time_stepping2_k4 ==
    /\ call = "perform_time_stepping2" /\ pc = "k4"
    /\ LET at == rk4_full(h, t_vals[n], y_vals[n], k3)
           r  == f_apply(f, at[1], at[2])
       IN  /\ evals' = Append(evals, <<n, at[1], at[2]>>)
           /\ IF IsOk(r)
              THEN /\ y_vals' = [y_vals EXCEPT
                       ![n + 1] = rk4_combine(y_vals[n], k1, k2, k3, RMul(h, Val(r)))]
                   /\ n' = n + 1 /\ pc' = "k1"
                   /\ UNCHANGED <<err, k1, k2, k3>>
              ELSE stage_raise(r)
    /\ stage_frame

\* return t_vals, y_vals
perform_time_stepping2_return ==
    /\ call = "perform_time_stepping2" /\ pc = "k1"
    /\ n >= N
    /\ pc' = "returned"
    /\ UNCHANGED <<call, err, legendreVars, n, N, sqrtVars, stepVars, evals>>

Horizons  == {FromInt(0 - 2), Zero, FromInt(2), FromInt(4)}
Seeds     == {FromInt(0 - 1), Zero, One}

InitEuler ==
    /\ call = "perform_time_stepping1"
    /\ T \in Horizons
    /\ N \in (0 - 2)..MaxN
    /\ y0 \in Seeds /\ y1 \in Seeds
    /\ f \in Derivatives \cup {"recip"}
    /\ M = 0
    /\ x = <<>> /\ p = 0 /\ legendre = <<>>
    /\ a = Zero /\ x0 = Zero /\ eps = Zero

InitRK4 ==
    /\ call = "perform_time_stepping2"
    /\ T \in Horizons
    /\ N \in (0 - 2)..MaxN
    /\ M \in {1, 5}
    /\ y0 \in Seeds /\ y1 = Zero
    /\ f \in Derivatives \cup (IF N <= 1 THEN {"recip"} ELSE {})
    /\ x = <<>> /\ p = 0 /\ legendre = <<>>
    /\ a = Zero /\ x0 = Zero /\ eps = Zero

---------------------------------------------------------------------------
Init ==
    /\ pc = "start" /\ err = ""
    /\ n = 0
    /\ x_new = Zero /\ iteration_count = 0 /\ delta_x = Zero /\ k = 0
    /\ taylor_sum = Zero /\ passes = <<>>
    /\ h = Zero /\ t_vals = <<>> /\ y_vals = <<>>
    /\ k1 = Zero /\ k2 = Zero /\ k3 = Zero
    /\ evals = <<>>
    /\ \/ InitLegendre
       \/ InitSqrt
       \/ InitEuler
       \/ InitRK4

Next ==
    \/ compute_legendre_zeros
    \/ compute_legendre_row0
    \/ compute_legendre_row1
    \/ compute_legendre_loop
    \/ compute_legendre_return
    \/ approx_square_root_init
    \/ approx_square_root_enter
    \/ approx_square_root_term
    \/ approx_square_root_update
    \/ approx_square_root_return
    \/ perform_time_stepping1_setup
    \/ perform_time_stepping1_loop
    \/ perform_time_stepping1_return
    \/ perform_time_stepping2_setup
    \/ perform_time_stepping2_k1
    \/ perform_time_stepping2_k2
    \/ perform_time_stepping2_k3
    \/ perform_time_stepping2_k4
    \/ perform_time_stepping2_return

Spec == Init /\ [][Next]_vars

---------------------------------------------------------------------------
(* Properties.                                                             *)

RLe(u, v) == ~ RGt(u, v)

Returned(c) == call = c /\ pc = "returned"

\* C1: for p >= 0 compute_legendre does not raise and returns p+1 rows of
\* m = len(x) entries; row 0 is all ones, row 1 is x when p >= 1, and every
\* row n in 2..p is ((2n-1)*x*row(n-1) - (n-1)*row(n-2))/n entry by entry.
C1_LegendreTable ==
    (call = "compute_legendre" /\ p >= 0) =>
        /\ pc # "raised"
        /\ pc = "returned" =>
            /\ DOMAIN legendre = 0..p
            /\ \A r \in 0..p : DOMAIN legendre[r] = 1..Len(x)
            /\ \A i \in 1..Len(x) : legendre[0][i] = One
            /\ p >= 1 => \A i \in 1..Len(x) : legendre[1][i] = x[i]
            /\ \A r \in 2..p : \A i \in 1..Len(x) :
                 legendre[r][i] =
                    RDiv(RSub(RMul(RMul(FromInt(2 * r - 1), x[i]), legendre[r - 1][i]),
                              RMul(FromInt(r - 1), legendre[r - 2][i])),
                         FromInt(r))

C1_Witness ==
    /\ Returned("compute_legendre")
    /\ p >= 3 /\ Len(x) = 2 /\ x[1] = FromInt(2) /\ x[2] = Rat(1, 2)

\* The matrix of the docstring example of compute_legendre.
DocstringMatrix ==
    [r \in 0..3 |->
        CASE r = 0 -> <<One, One, One, One, One>>
          [] r = 1 -> <<Rat(0 - 1, 1), Rat(0 - 1, 2), Zero, Rat(1, 2), One>>
          [] r = 2 -> <<One, Rat(1, 8), Rat(0 - 1, 2), Rat(1, 8), One>>
          [] r = 3 -> <<Rat(0 - 1, 1), Rat(0 - 7, 16), Zero, Rat(7, 16), One>>]

\* C2: compute_legendre(np.linspace(-1, 1, 5), 3) returns exactly the matrix
\* of the docstring.
C2_DocstringExample ==
    (Returned("compute_legendre") /\ x = Linspace5 /\ p = 3) =>
        \A r \in 0..3 : \A i \in 1..5 : legendre[r][i] = DocstringMatrix[r][i]

\* C3: in the returned table, row n holds 1 at every sample equal to 1 and
\* (-1)^n at every sample equal to -1, for every n in 0..p.
C3_EndpointValues ==
    Returned("compute_legendre") =>
        \A r \in 0..p : \A i \in 1..Len(x) :
            /\ x[i] = One => legendre[r][i] = One
            /\ x[i] = FromInt(0 - 1) => legendre[r][i] = FromInt(IPow(0 - 1, r))

C3_Witness ==
    /\ Returned("compute_legendre")
    /\ p >= 3
    /\ \E i, j \in 1..Len(x) : x[i] = One /\ x[j] = FromInt(0 - 1)

\* The correction factor of one pass: the sum of term(k, a - est^2, est)
\* over k = 0..N, for an estimate est # 0 or N = 0.
RECURSIVE TermSum(_, _)
TermSum(est, upto) ==
    IF upto < 0 THEN Zero
    ELSE RAdd(TermSum(est, upto - 1),
              Val(taylor_term(upto, RSub(a, RMul(est, est)), est)))

\* C4: when approx_square_root returns (x, count), |x^2 - a| <= eps and
\* count is the number of loop passes executed; count starts at 0 and grows
\* by one per pass, and each completed pass replaces the estimate x it
\* started with by x * S, S the sum of term(k, a - x^2, x) over k = 0..N.
C4_ReturnAndCount ==
    call = "approx_square_root" =>
        /\ pc = "returned" =>
              /\ RLe(RAbs(RSub(RMul(x_new, x_new), a)), eps)
              /\ iteration_count = Len(passes)
        /\ pc = "while" => iteration_count = Len(passes)
        /\ pc = "sum" => iteration_count = Len(passes) - 1
        /\ Len(passes) >= 1 => passes[1] = x0
        /\ \A i \in 1..iteration_count :
              LET next == IF i < Len(passes) THEN passes[i + 1] ELSE x_new
              IN  next = RMul(passes[i], TermSum(passes[i], N))

C4_Witness ==
    /\ Returned("approx_square_root")
    /\ RGt(a, Zero) /\ RGt(eps, Zero)
    /\ iteration_count >= 2 /\ N >= 1

\* C5: if x0^2 = a and eps > 0, no loop pass starts and no series term is
\* evaluated, for every N: the call returns (x0, 0).
C5_ExactGuess ==
    (call = "approx_square_root" /\ RMul(x0, x0) = a /\ RGt(eps, Zero)) =>
        /\ pc \in {"start", "while", "returned"}
        /\ evals = <<>> /\ passes = <<>>
        /\ pc = "returned" => x_new = x0 /\ iteration_count = 0

C5_Witness ==
    /\ Returned("approx_square_root")
    /\ RMul(x0, x0) = a /\ RGt(eps, Zero) /\ N >= 1 /\ x0 = FromInt(0 - 2)

\* A loop pass that started with the estimate 0 ends in ZeroDivisionError:
\* it is the last pass, it gets no further than its term k = 1, and it never
\* completes.
ZeroPassRaises ==
    \A i \in 1..Len(passes) :
        passes[i] = Zero =>
            /\ i = Len(passes)
            /\ iteration_count < i
            /\ \/ pc = "sum" /\ k <= 1
               \/ pc = "raised" /\ err = "ZeroDivisionError"

\* C6 as stated: for every term count N >= 0, a pass of approx_square_root
\* that starts with the estimate 0 ends in a division-by-zero error; it
\* neither completes nor lets the call return.  (Stated here for a > 0 and
\* eps > 0, the targets and tolerances of the contract.)
C6_AsClaimed ==
    (call = "approx_square_root" /\ RGt(a, Zero) /\ RGt(eps, Zero)) =>
        ZeroPassRaises

\* C6 amended: the same for every term count N >= 1.
C6_ZeroEstimateRaises ==
    (call = "approx_square_root" /\ N >= 1) => ZeroPassRaises

C6_Witness ==
    /\ call = "approx_square_root" /\ N >= 1
    /\ pc = "raised" /\ err = "ZeroDivisionError"
    /\ x_new = Zero /\ x0 # Zero

\* Explicit Euler from the second grid point on: y1, then one update per
\* grid point, with no mention of y0.
RECURSIVE EulerFrom(_)
EulerFrom(j) ==
    IF j = 1 THEN y1
    ELSE LET prev == EulerFrom(j - 1)
             hh   == RDiv(T, FromInt(N))
         IN  RAdd(prev, RMul(hh, Val(f_apply(f, RMul(FromInt(j - 1), hh), prev))))

RK4Step(hh, tn, yn) ==
    LET half == RDiv(hh, FromInt(2))
        s1 == RMul(hh, Val(f_apply(f, tn, yn)))
        s2 == RMul(hh, Val(f_apply(f, RAdd(tn, half), RAdd(yn, RDiv(s1, FromInt(2))))))
        s3 == RMul(hh, Val(f_apply(f, RAdd(tn, half), RAdd(yn, RDiv(s2, FromInt(2))))))
        s4 == RMul(hh, Val(f_apply(f, RAdd(tn, hh), RAdd(yn, s3))))
    IN  RAdd(yn, RDiv(RAdd(RAdd(RAdd(s1, RMul(FromInt(2), s2)),
                                RMul(FromInt(2), s3)), s4),
                      FromInt(6)))

\* The Runge-Kutta trajectory as a function of T, N, y0 and f only.
RECURSIVE RK4From(_)
RK4From(j) ==
    IF j = 0 THEN y0
    ELSE LET hh == RDiv(T, FromInt(N))
         IN  RK4Step(hh, RMul(FromInt(j - 1), hh), RK4From(j - 1))

\* C8: for N >= 1 the setup of perform_time_stepping2 does not raise; f is
\* evaluated four times per step; a returning call has evaluated f 4*N
\* times and returns y_vals of length N+1 with y_vals[0] = y0 and, for n in
\* 0..N-1, y_vals[n+1] = y_n + (k1 + 2*k2 + 2*k3 + k4)/6 with h = T/N and
\* k1..k4 the four stage slopes; the trajectory is the same for every M.
C8_RK4Trajectory ==
    (call = "perform_time_stepping2" /\ N >= 1) =>
        /\ pc = "raised" => Len(evals) >= 1
        /\ \A j \in 1..Len(evals) : evals[j][1] = (j - 1) \div 4
        /\ pc = "returned" =>
            /\ Len(evals) = 4 * N
            /\ DOMAIN t_vals = 0..N /\ DOMAIN y_vals = 0..N
            /\ y_vals[0] = y0
            /\ \A i \in 0..(N - 1) :
                 y_vals[i + 1] = RK4Step(RDiv(T, FromInt(N)), t_vals[i], y_vals[i])
            /\ \A i \in 0..N : y_vals[i] = RK4From(i)

C8_Witness ==
    /\ Returned("perform_time_stepping2")
    /\ N >= 2 /\ f = "t_minus_y" /\ M = 5 /\ T = FromInt(4) /\ y0 = One

\* The arguments that violate a positivity requirement.
InvalidArguments ==
    \/ call = "compute_legendre" /\ p < 0
    \/ call = "approx_square_root" /\ (RLe(a, Zero) \/ RLe(eps, Zero))
    \/ /\ call \in {"perform_time_stepping1", "perform_time_stepping2"}
       /\ (RLe(T, Zero) \/ N <= 0)

\* C9: a call with an argument that violates a positivity requirement
\* fails with an error and returns no result.
C9_InvalidArgumentRejected ==
    InvalidArguments => pc # "returned"

\* C10: with N = 0 the correction factor is exactly 1 on every pass and the
\* estimate stays x0 while the counter grows; the call returns only if
\* |x0^2 - a| <= eps holds on entry (then with count 0), and never raises.
C10_ZeroTerms ==
    (call = "approx_square_root" /\ N = 0) =>
        /\ pc # "raised"
        /\ pc # "start" => x_new = x0
        /\ (pc = "sum" /\ k > 0) => taylor_sum = One
        /\ \A i \in 1..Len(passes) : passes[i] = x0
        /\ pc = "returned" =>
              /\ iteration_count = 0
              /\ RLe(RAbs(RSub(RMul(x0, x0), a)), eps)
        /\ RGt(RAbs(RSub(RMul(x0, x0), a)), eps) => pc # "returned"

C10_Witness ==
    /\ call = "approx_square_root" /\ N = 0
    /\ iteration_count >= 2 /\ pc = "while" /\ x_new = x0 /\ x0 # Zero

=============================================================================
